---- MODULE Spec2Model ----
(***************************************************************************)
(* A model of the watermarking component of ProtectorIMG                   *)
(* (src/src/components/WatermarkApp.jsx): the React state of WatermarkApp, *)
(* the hidden working canvas with its 2D context, the compositing effect   *)
(* with its 100 ms timer, the upload handlers with their asynchronous file *)
(* read and image decode callbacks, the notification timer, the            *)
(* verification gate (both versions of CaptchaModal held by the file) and  *)
(* the export pipeline (handleVerifiedDownload, applySteganography).       *)
(*                                                                         *)
(* Units.  Canvas coordinates are kept in sub-pixel units of 1/SubPx pixel *)
(* (SubPx = 60 is divisible by every density 1..5, so max(w,h)/density and *)
(* every tile anchor is an exact integer of these units).  Opacity is kept *)
(* in hundredths (0.5 is 50).  Radians are kept in units of pi/PiUnits.    *)
(* Sines and cosines are kept in thousandths (TrigScale).  Tile sizes are  *)
(* exact rationals <<numerator, denominator>>.                             *)
(***************************************************************************)
EXTENDS Integers, Sequences, FiniteSets, TLC

VARIABLES
    signature,        \* useState('')      text signature
    signatureImage,   \* useState(null)    raster signature (processed image)
    image,            \* useState(null)    base image
    watermarkedImage, \* useState(null)    published composite (data URL)
    opacity,          \* useState(0.5)     in hundredths
    angle,            \* useState(45)      degrees
    density,          \* useState(3)
    fontSize,         \* useState(20)      px
    signatureSize,    \* useState(100)     percent of canvas width
    textColor,        \* useState('#000000'), a sequence of characters
    isProcessing,     \* useState(false)
    notification,     \* useState(null)
    canvas,           \* canvasRef.current with its 2D context
    timers,           \* pending compositing callbacks (closures), FIFO
    notifTimers,      \* number of pending 3 s notification timers
    uploads,          \* file reads / image decodes in flight
    lastPass,         \* history: inputs and spacing of the last pass run
    events,           \* history: number of user events so far
    variant,          \* which version of the component runs: its gate
    showCaptcha,      \* useState(false)
    isProcessingDownload, \* useState(false)
    modal,            \* the state of the mounted CaptchaModal
    export,           \* the export in flight: applySteganography's position
    stegoCanvas,      \* the canvas applySteganography creates for itself
    downloads         \* the files handed to the browser by link.click()

vars == <<signature, signatureImage, image, watermarkedImage, opacity, angle,
          density, fontSize, signatureSize, textColor, isProcessing,
          notification, canvas, timers, notifTimers, uploads, lastPass,
          events, variant, showCaptcha, isProcessingDownload, modal, export,
          stegoCanvas, downloads>>

\* the part of the state that only the gate and the export write
gateVars == <<variant, showCaptcha, isProcessingDownload, stegoCanvas,
              downloads>>

-----------------------------------------------------------------------------
(* Bounds of the model *)

MaxEvents == 3
MaxExports == 2

-----------------------------------------------------------------------------
(* Units and program constants *)

SubPx == 60
PiUnits == 36
TrigScale == 1000
DefaultCanvasWidth == 300
DefaultCanvasHeight == 150

Max(a, b) == IF a >= b THEN a ELSE b
Abs(a) == IF a >= 0 THEN a ELSE -a

RECURSIVE GCD(_, _)
GCD(a, b) == IF b = 0 THEN a ELSE GCD(b, a % b)

\* a rational number n/d in lowest terms, d > 0
Rat(n, d) ==
    LET g == GCD(Abs(n), Abs(d))
        s == IF d < 0 THEN -1 ELSE 1
    IN  <<(s * n) \div g, (s * d) \div g>>
RatMul(p, q) == Rat(p[1] * q[1], p[2] * q[2])
RatDiv(p, q) == Rat(p[1] * q[2], p[2] * q[1])

-----------------------------------------------------------------------------
(* Values *)

NoImage == [name |-> "null", width |-> 0, height |-> 0]
ImgA == [name |-> "A", width |-> 800, height |-> 600]
ImgB == [name |-> "B", width |-> 600, height |-> 800]
ImgC == [name |-> "C", width |-> 500, height |-> 500]
SigS == [name |-> "S", width |-> 200, height |-> 100]
SigQ == [name |-> "Q", width |-> 90, height |-> 120]

Black == <<"#", "0", "0", "0", "0", "0", "0">>
Red == <<"#", "f", "f", "0", "0", "0", "0">>
Teal == <<"#", "1", "a", "8", "0", "7", "f">>

NoSnapshot == [width |-> 0, height |-> 0, ops |-> <<>>]
NoNotification == [message |-> "null", type |-> "null"]


-----------------------------------------------------------------------------
(* Number conversions of the compositing pass *)

\* parseInt(ch, 16) of one hexadecimal digit
HexDigit(ch) ==
    CASE ch = "0" -> 0 [] ch = "1" -> 1 [] ch = "2" -> 2 [] ch = "3" -> 3
      [] ch = "4" -> 4 [] ch = "5" -> 5 [] ch = "6" -> 6 [] ch = "7" -> 7
      [] ch = "8" -> 8 [] ch = "9" -> 9 [] ch = "a" -> 10 [] ch = "b" -> 11
      [] ch = "c" -> 12 [] ch = "d" -> 13 [] ch = "e" -> 14 [] ch = "f" -> 15

\* parseInt(textColor.substr(start, 2), 16), start counted from 0
ParseHexPair(color, start) ==
    16 * HexDigit(color[start + 1]) + HexDigit(color[start + 2])

\* mutant: the fill colour is opaque
FillStyleOpaque(color, op) ==
    [r |-> ParseHexPair(color, 1), g |-> ParseHexPair(color, 3),
     b |-> ParseHexPair(color, 5), a |-> 100]

\* `rgba(${r}, ${g}, ${b}, ${opacity})`
FillStyleOf(color, op) ==
    [r |-> ParseHexPair(color, 1), g |-> ParseHexPair(color, 3),
     b |-> ParseHexPair(color, 5), a |-> op]

\* `${fontSize}px Arial`
FontOf(size) == [px |-> size, family |-> "Arial"]

\* mutant: the degrees are divided by 360 instead of 180
RadiansOver360(deg) == (deg * PiUnits) \div 360

\* (angle * Math.PI) / 180, in units of pi/PiUnits
Radians(deg) == (deg * PiUnits) \div 180

\* sin of k * 5 degrees for 0 <= k <= 18, in thousandths
SinTable ==
    <<0, 87, 174, 259, 342, 423, 500, 574, 643, 707,
      766, 819, 866, 906, 940, 966, 985, 996, 1000>>

\* sine of r radians-units; 2*PiUnits units are one turn
Sin(r) ==
    LET t == r % (2 * PiUnits)
        h == PiUnits \div 2
    IN  IF t <= h THEN SinTable[t + 1]
        ELSE IF t <= PiUnits THEN SinTable[PiUnits - t + 1]
        ELSE IF t <= PiUnits + h THEN -SinTable[t - PiUnits + 1]
        ELSE -SinTable[2 * PiUnits - t + 1]

Cos(r) == Sin(r + PiUnits \div 2)

\* mutant: the spacing is taken from the width alone
SpacingOfWidth(w, h, d) == (w * SubPx) \div d
\* mutant: the spacing is taken from the smaller dimension
SpacingOfMin(w, h, d) == ((IF w <= h THEN w ELSE h) * SubPx) \div d
\* mutant: the larger dimension is multiplied by the density
SpacingTimesDensity(w, h, d) == Max(w, h) * SubPx * d

\* Math.max(canvas.width, canvas.height) / density, in sub-pixel units
Spacing(w, h, d) == (Max(w, h) * SubPx) \div d

\* The <dimension, max dimension, density> for which the IEEE-754 double sum
\* -dim + spacing + ... + spacing, taken 3*dim/spacing times, lands below
\* 2*dim although the exact sum equals 2*dim (spacing is not representable),
\* so that the loop test x < 2*dim passes once more.  Computed in double
\* arithmetic for the image sizes of this model.
FloatShortfall == {<<500, 500, 3>>}

\* the values a loop variable takes in
\*   for (let x = -dim; x < dim * 2; x += spacing)
RECURSIVE LoopValues(_, _, _, _)
LoopValues(x, limit, step, short) ==
    IF x < limit THEN <<x>> \o LoopValues(x + step, limit, step, short)
    ELSE IF x = limit /\ short THEN <<x>>
    ELSE <<>>

Anchors(dim, w, h, d) ==
    LoopValues(-dim * SubPx, 2 * dim * SubPx, Spacing(w, h, d),
               <<dim, Max(w, h), d>> \in FloatShortfall)

-----------------------------------------------------------------------------
(* The canvas element and its 2D context *)

DefaultFill == [r |-> 0, g |-> 0, b |-> 0, a |-> 100]
DefaultFont == [px |-> 10, family |-> "sans-serif"]

\* the drawing state that save() pushes and restore() pops
DrawState(c) ==
    [rot |-> c.rot, globalAlpha |-> c.globalAlpha,
     fillStyle |-> c.fillStyle, font |-> c.font]

\* a canvas whose bitmap is cleared and whose context is in its default state
BlankCanvas(w, h) ==
    [width |-> w, height |-> h, ops |-> <<>>, rot |-> 0, globalAlpha |-> 100,
     fillStyle |-> DefaultFill, font |-> DefaultFont, stack |-> <<>>]

\* mutant: the assignment leaves the bitmap and the context as they are
ResetContextKeepsAll(c) == c

\* what assigning canvas.width or canvas.height does besides setting the
\* size: the bitmap is cleared and the context returns to its default state
ResetContext(c) == BlankCanvas(c.width, c.height)

\* mutant: the width assignment is lost
SetCanvasWidthIgnored(c, w) == BlankCanvas(c.width, c.height)

\* canvas.width = w
SetCanvasWidth(c, w) == [ResetContext(c) EXCEPT !.width = w]
\* canvas.height = h
SetCanvasHeight(c, h) == [ResetContext(c) EXCEPT !.height = h]

Save(c) == [c EXCEPT !.stack = Append(@, DrawState(c))]

Restore(c) ==
    IF c.stack = <<>> THEN c
    ELSE LET s == c.stack[Len(c.stack)]
         IN  [c EXCEPT !.rot = s.rot, !.globalAlpha = s.globalAlpha,
                       !.fillStyle = s.fillStyle, !.font = s.font,
                       !.stack = SubSeq(@, 1, Len(@) - 1)]

\* ctx.rotate(r): composes a rotation with the current transform
Rotate(c, r) == [c EXCEPT !.rot = @ + r]
SetGlobalAlpha(c, a) == [c EXCEPT !.globalAlpha = a]
SetFillStyle(c, f) == [c EXCEPT !.fillStyle = f]
SetFont(c, f) == [c EXCEPT !.font = f]

\* one drawing operation, recorded with the context state it was drawn under
DrawOp(c, kind, src, x, y, w, h) ==
    [kind |-> kind, src |-> src, x |-> x, y |-> y, w |-> w, h |-> h,
     rot |-> c.rot, alpha |-> c.globalAlpha,
     fill |-> IF kind = "text" THEN c.fillStyle ELSE DefaultFill,
     font |-> IF kind = "text" THEN c.font ELSE DefaultFont]

\* ctx.drawImage(img, x, y, w, h); the 3-argument form uses the image's size
DrawImage(c, img, x, y, w, h) ==
    [c EXCEPT !.ops = Append(@, DrawOp(c, "image", img.name, x, y, w, h))]

\* ctx.fillText(text, x, y)
FillText(c, text, x, y) ==
    [c EXCEPT !.ops = Append(@, DrawOp(c, "text", text, x, y,
                                       <<0, 1>>, <<0, 1>>))]

\* the alpha a drawing operation is blended with, in ten-thousandths: the
\* context's globalAlpha times the alpha of what is drawn, which is the
\* alpha of the fill colour for text and the pixel's own alpha (srcAlpha,
\* in hundredths) for an image
BlendAlpha(o, srcAlpha) ==
    o.alpha * (IF o.kind = "text" THEN o.fill.a ELSE srcAlpha)

\* canvas.toDataURL(): the bitmap, at the canvas' size
ToDataURL(c) == [width |-> c.width, height |-> c.height, ops |-> c.ops]


-----------------------------------------------------------------------------
(* The verification gate: the state of CaptchaModal.  The file holds two   *)
(* versions of the component: the first gates the export by a reCAPTCHA    *)
(* widget (state verified, error), the second by a text challenge (state   *)
(* captcha, input, error).  One record holds both; a field that a version  *)
(* does not have keeps its blank value.  Texts are sequences of characters.*)

Variants == {"recaptcha", "text"}

\* challenges that generateCaptcha may draw: six characters of 0-9, A-Z
Captchas == {<<"K", "7", "P", "2", "Q", "Z">>, <<"M", "4", "X", "9", "T", "A">>}
\* what the user may type into the challenge's input (maxLength 6, required)
Inputs == {<<"k", "7", "p", "2", "q", "z">>, <<"M", "4", "x", "9", "T", "A">>,
           <<"n", "o", "p", "e", "1", "2">>}
\* tokens the reCAPTCHA widget passes to onChange (null when it has none)
Tokens == {"null", "03AFcWeA"}

LowerCase == <<"a", "b", "c", "d", "e", "f", "g", "h", "i", "j", "k", "l", "m",
               "n", "o", "p", "q", "r", "s", "t", "u", "v", "w", "x", "y", "z">>
UpperCase == <<"A", "B", "C", "D", "E", "F", "G", "H", "I", "J", "K", "L", "M",
               "N", "O", "P", "Q", "R", "S", "T", "U", "V", "W", "X", "Y", "Z">>

\* String.prototype.toUpperCase, character by character
UpperChar(ch) ==
    IF \E k \in DOMAIN LowerCase : LowerCase[k] = ch
    THEN UpperCase[CHOOSE k \in DOMAIN LowerCase : LowerCase[k] = ch]
    ELSE ch
ToUpperCase(s) == [k \in DOMAIN s |-> UpperChar(s[k])]

\* no modal is mounted
NoModal == [verified |-> FALSE, error |-> "", captcha |-> <<>>, input |-> <<>>]

\* the state of a modal that has just been mounted:
\* useState(false), useState('') / useState(generateCaptcha()), useState('')
FreshModals(v) ==
    IF v = "recaptcha"
    THEN {NoModal}
    ELSE {[NoModal EXCEPT !.captcha = c] : c \in Captchas}

\* CaptchaModal is a function defined in the body of WatermarkApp, so every
\* render of WatermarkApp yields a new component type: React unmounts the
\* modal on screen and mounts a new one, whose state starts afresh.
Remount(changed) ==
    modal' \in IF changed /\ showCaptcha THEN FreshModals(variant) ELSE {modal}

\* a step outside the gate: WatermarkApp renders again if its state changed
Rendered(changed) ==
    /\ UNCHANGED gateVars
    /\ Remount(changed)

-----------------------------------------------------------------------------
(* The compositing pass: the body of the effect's timer callback *)

\* the values of the effect's dependency list, captured by the callback
Deps ==
    [image |-> image, signature |-> signature,
     signatureImage |-> signatureImage, opacity |-> opacity, angle |-> angle,
     density |-> density, fontSize |-> fontSize, textColor |-> textColor,
     signatureSize |-> signatureSize]

\* the nested tile loops, y outer and x inner, drawing one tile per anchor
TileOps(c, kind, src, xs, ys, w, h) ==
    [k \in 1..(Len(ys) * Len(xs)) |->
        DrawOp(c, kind, src, xs[((k - 1) % Len(xs)) + 1],
               ys[((k - 1) \div Len(xs)) + 1], w, h)]

\* if (signature) { font, fillStyle, for y, for x: fillText(signature, x, y) }
TextTiles(c, cl) ==
    LET c1 == SetFont(c, FontOf(cl.fontSize))
        c2 == SetFillStyle(c1, FillStyleOf(cl.textColor, cl.opacity))
        ys == Anchors(c.height, c.width, c.height, cl.density)
        xs == Anchors(c.width, c.width, c.height, cl.density)
    IN  [c2 EXCEPT !.ops = @ \o TileOps(c2, "text", cl.signature, xs, ys,
                                        <<0, 1>>, <<0, 1>>)]

\* size = (canvas.width * signatureSize) / 100; width = size
TileWidth(cw, pct) == Rat(cw * pct, 100)
\* mutant: the size is multiplied by the ratio
TileHeightTimesRatio(size, sig) == RatMul(size, Rat(sig.width, sig.height))

\* ratio = signatureImage.width / signatureImage.height; height = size / ratio
TileHeight(size, sig) == RatDiv(size, Rat(sig.width, sig.height))

\* if (signatureImage) { size, ratio, for y, for x: drawImage(..., x, y, w, h) }
ImageTiles(c, cl) ==
    LET size == TileWidth(c.width, cl.signatureSize)
        width == size
        height == TileHeight(size, cl.signatureImage)
        ys == Anchors(c.height, c.width, c.height, cl.density)
        xs == Anchors(c.width, c.width, c.height, cl.density)
    IN  [c EXCEPT !.ops = @ \o TileOps(c, "image", cl.signatureImage.name,
                                       xs, ys, width, height)]

\* mutant: the rotation and the global alpha are set before the base blit
CompositingPassBlitLast(c, cl) ==
    LET c1 == SetCanvasHeight(SetCanvasWidth(c, cl.image.width),
                              cl.image.height)
        c3 == Save(c1)
        c4 == Rotate(c3, Radians(cl.angle))
        c5 == SetGlobalAlpha(c4, cl.opacity)
        c2 == DrawImage(c5, cl.image, 0, 0, <<cl.image.width, 1>>,
                        <<cl.image.height, 1>>)
        c6 == IF cl.signature # "" THEN TextTiles(c2, cl) ELSE c2
        c7 == IF cl.signatureImage # NoImage THEN ImageTiles(c6, cl) ELSE c6
    IN  Restore(c7)

\* the timer callback, from canvas.width = image.width to ctx.restore()
CompositingPass(c, cl) ==
    LET c1 == SetCanvasHeight(SetCanvasWidth(c, cl.image.width),
                              cl.image.height)
        c2 == DrawImage(c1, cl.image, 0, 0, <<cl.image.width, 1>>,
                        <<cl.image.height, 1>>)
        c3 == Save(c2)
        c4 == Rotate(c3, Radians(cl.angle))
        c5 == SetGlobalAlpha(c4, cl.opacity)
        c6 == IF cl.signature # "" THEN TextTiles(c5, cl) ELSE c5
        c7 == IF cl.signatureImage # NoImage THEN ImageTiles(c6, cl) ELSE c6
    IN  Restore(c7)

\* mutant: the check for a signature is missing
EffectRunsWithoutSignature(img, sig, sigImg) == img # NoImage

\* if (!image || !canvasRef.current) return;
\* if (!signature && !signatureImage) return;
\* (the canvas element is rendered unconditionally: the ref is never null)
EffectRuns(img, sig, sigImg) ==
    /\ img # NoImage
    /\ sig # "" \/ sigImg # NoImage

\* mutant: a callback set later runs before the ones set earlier
EffectLastSetRunsFirst ==
    /\ timers' = IF EffectRuns(image', signature', signatureImage')
                 THEN <<Deps'>> \o timers ELSE timers
    /\ isProcessing' = IF EffectRuns(image', signature', signatureImage')
                       THEN TRUE ELSE isProcessing
    /\ export' = IF EffectRuns(image', signature', signatureImage')
                    /\ export.pc # "idle"
                 THEN [export EXCEPT !.superseded = TRUE] ELSE export

\* the effect, run after a render in which a dependency changed:
\* setIsProcessing(true); setTimeout(callback, 100)
Effect ==
    /\ timers' = IF EffectRuns(image', signature', signatureImage')
                 THEN Append(timers, Deps') ELSE timers
    /\ isProcessing' = IF EffectRuns(image', signature', signatureImage')
                       THEN TRUE ELSE isProcessing
    \* history: a request that arrives while an export is in flight
    /\ export' = IF EffectRuns(image', signature', signatureImage')
                    /\ export.pc # "idle"
                 THEN [export EXCEPT !.superseded = TRUE] ELSE export

\* the timer callback fires (timers of equal delay fire in the order set)
CompositingTimer ==
    /\ timers # <<>>
    /\ LET cl == Head(timers)
           c == CompositingPass(canvas, cl)
       IN  /\ canvas' = c
           /\ watermarkedImage' = ToDataURL(c)
           /\ lastPass' = [ran |-> TRUE, cl |-> cl,
                           spacing |-> Spacing(c.width, c.height, cl.density),
                           before |-> ToDataURL(canvas)]
    /\ isProcessing' = FALSE
    /\ timers' = Tail(timers)
    /\ UNCHANGED <<signature, signatureImage, image, opacity, angle, density,
                   fontSize, signatureSize, textColor, notification,
                   notifTimers, uploads, events>>
    /\ UNCHANGED export
    /\ Rendered(watermarkedImage' # watermarkedImage \/ isProcessing)

-----------------------------------------------------------------------------
(* Notifications *)

\* setNotification({message, type}); setTimeout(() => setNotification(null), 3000)
ShowNotification(message, type) ==
    /\ notification' = [message |-> message, type |-> type]
    /\ notifTimers' = notifTimers + 1

NotificationTimer ==
    /\ notifTimers > 0
    /\ notification' = NoNotification
    /\ notifTimers' = notifTimers - 1
    /\ UNCHANGED <<signature, signatureImage, image, watermarkedImage, opacity,
                   angle, density, fontSize, signatureSize, textColor,
                   isProcessing, canvas, timers, uploads, lastPass, events>>
    /\ UNCHANGED export
    /\ Rendered(notification # NoNotification)


-----------------------------------------------------------------------------
(* Inputs of the user interface *)

NoFile == [name |-> "none", type |-> "", image |-> NoImage]
FileA == [name |-> "a.jpg", type |-> "image/jpeg", image |-> ImgA]
FileB == [name |-> "b.png", type |-> "image/png", image |-> ImgB]
FileT == [name |-> "t.txt", type |-> "text/plain", image |-> NoImage]
FileS == [name |-> "s.png", type |-> "image/png", image |-> SigS]
FileJ == [name |-> "j.jpg", type |-> "image/jpeg", image |-> SigQ]
FileQ == [name |-> "q.png", type |-> "image/png", image |-> SigQ]

BaseFiles == {FileA, FileB, FileT}
SignatureFiles == {FileS, FileJ}
Texts == {"", "Jane Doe"}
OpacityStops == {50, 100}
AngleStops == {45, 90}
DensityStops == {3, 5}
FontSizeStops == {20, 10}
SignatureSizeStops == {100, 200}
Colors == {Black, Red}
\* the size slider sets the signature size while a raster signature is set,
\* the font size otherwise
SizeStops == IF signatureImage # NoImage THEN SignatureSizeStops
             ELSE FontSizeStops

\* file.type.match('image.*'), for the MIME types of the files above
MatchesImage(type) == type \in {"image/jpeg", "image/png"}
\* mutant: every image type passes
MatchesPngAnyImage(type) == type \in {"image/jpeg", "image/png"}

\* file.type.match('image/png')
MatchesPng(type) == type = "image/png"

\* one more user event, within the bound of the model
UserEvent ==
    /\ events < MaxEvents
    /\ events' = events + 1

-----------------------------------------------------------------------------
(* Handlers *)

\* mutant: the slider passes on any value
RangeValueUnchecked(min, max, step, v) == v

\* the value of an <input type="range" min max step> that is asked to take
\* v: v is clamped to [min, max] and moved to the nearest step from min
RangeValue(min, max, step, v) ==
    LET c == IF v < min THEN min ELSE IF v > max THEN max ELSE v
        snapped == min + ((c - min + step \div 2) \div step) * step
    IN  IF snapped > max THEN snapped - step ELSE snapped

\* the text input's onChange: setSignature(e.target.value)
SetSignature(v) ==
    /\ UserEvent
    /\ v # signature
    /\ signature' = v
    /\ UNCHANGED <<signatureImage, image, watermarkedImage, opacity, angle,
                   density, fontSize, signatureSize, textColor, notification,
                   canvas, notifTimers, uploads, lastPass>>
    /\ Effect
    /\ Rendered(TRUE)

\* reader.readAsDataURL(file): a read is in flight
StartUpload(kind, file) ==
    uploads' = Append(uploads, [kind |-> kind, file |-> file, stage |-> "read"])

\* handleImageUpload: the base image's file picker
HandleImageUpload(file) ==
    /\ UserEvent
    /\ IF file # NoFile /\ MatchesImage(file.type)
       THEN StartUpload("base", file)
       ELSE UNCHANGED uploads
    /\ UNCHANGED <<signature, signatureImage, image, watermarkedImage, opacity,
                   angle, density, fontSize, signatureSize, textColor,
                   isProcessing, notification, canvas, timers, notifTimers,
                   lastPass>>
    /\ UNCHANGED export
    /\ Rendered(FALSE)

\* handleDrop: a file dropped on the base image's drop zone
HandleDrop(file) ==
    /\ UserEvent
    /\ IF file = NoFile
       THEN UNCHANGED <<uploads, notification, notifTimers>>
       ELSE IF MatchesImage(file.type)
       THEN StartUpload("base", file) /\ UNCHANGED <<notification, notifTimers>>
       ELSE ShowNotification("invalidImage", "error") /\ UNCHANGED uploads
    /\ UNCHANGED <<signature, signatureImage, image, watermarkedImage, opacity,
                   angle, density, fontSize, signatureSize, textColor,
                   isProcessing, canvas, timers, lastPass>>
    /\ UNCHANGED export
    \* setIsDragging(false) ends the drag that went before the drop
    /\ Rendered(TRUE)

\* handleSignatureImageUpload: the signature's picker, and its drop zone,
\* whose onDrop calls it with the dropped file
HandleSignatureImageUpload(file) ==
    /\ UserEvent
    /\ IF file = NoFile
       THEN UNCHANGED <<uploads, notification, notifTimers>>
       ELSE IF ~MatchesPng(file.type)
       THEN ShowNotification("invalidSignatureImage", "error")
            /\ UNCHANGED uploads
       ELSE StartUpload("signature", file)
            /\ UNCHANGED <<notification, notifTimers>>
    /\ UNCHANGED <<signature, signatureImage, image, watermarkedImage, opacity,
                   angle, density, fontSize, signatureSize, textColor,
                   isProcessing, canvas, timers, lastPass>>
    /\ UNCHANGED export
    /\ Rendered(file # NoFile /\ ~MatchesPng(file.type))

RemoveAt(seq, i) == SubSeq(seq, 1, i - 1) \o SubSeq(seq, i + 1, Len(seq))

\* reader.onload: img.src = event.target.result, the decode starts
ReaderOnload(i) ==
    /\ uploads[i].stage = "read"
    /\ uploads' = [uploads EXCEPT ![i].stage = "decode"]
    /\ UNCHANGED <<signature, signatureImage, image, watermarkedImage, opacity,
                   angle, density, fontSize, signatureSize, textColor,
                   isProcessing, notification, canvas, timers, notifTimers,
                   lastPass, events>>
    /\ UNCHANGED export
    /\ Rendered(FALSE)

\* img.onload of a base image: setImage(img); showNotification('imageUploaded')
ImageOnload(i) ==
    /\ uploads[i].kind = "base"
    /\ uploads[i].stage = "decode"
    /\ image' = uploads[i].file.image
    /\ ShowNotification("imageUploaded", "success")
    /\ uploads' = RemoveAt(uploads, i)
    /\ UNCHANGED <<signature, signatureImage, watermarkedImage, opacity, angle,
                   density, fontSize, signatureSize, textColor, canvas,
                   lastPass, events>>
    /\ Effect
    /\ Rendered(TRUE)

\* img.onload of a signature image: it is redrawn on a canvas of its own and
\* processedImg.src = canvas.toDataURL('image/png')
SignatureOnload(i) ==
    /\ uploads[i].kind = "signature"
    /\ uploads[i].stage = "decode"
    /\ uploads' = [uploads EXCEPT ![i].stage = "process"]
    /\ UNCHANGED <<signature, signatureImage, image, watermarkedImage, opacity,
                   angle, density, fontSize, signatureSize, textColor,
                   isProcessing, notification, canvas, timers, notifTimers,
                   lastPass, events>>
    /\ UNCHANGED export
    /\ Rendered(FALSE)

\* processedImg.onload: setSignatureImage(processedImg);
\* showNotification('signatureImageUploaded')
ProcessedOnload(i) ==
    /\ uploads[i].kind = "signature"
    /\ uploads[i].stage = "process"
    /\ signatureImage' = uploads[i].file.image
    /\ ShowNotification("signatureImageUploaded", "success")
    /\ uploads' = RemoveAt(uploads, i)
    /\ UNCHANGED <<signature, image, watermarkedImage, opacity, angle, density,
                   fontSize, signatureSize, textColor, canvas, lastPass,
                   events>>
    /\ Effect
    /\ Rendered(TRUE)

\* the remove button under the signature preview: setSignatureImage(null)
RemoveSignatureImage ==
    /\ UserEvent
    /\ signatureImage # NoImage
    /\ signatureImage' = NoImage
    /\ UNCHANGED <<signature, image, watermarkedImage, opacity, angle, density,
                   fontSize, signatureSize, textColor, notification, canvas,
                   notifTimers, uploads, lastPass>>
    /\ Effect
    /\ Rendered(TRUE)

\* the colour input: setTextColor(e.target.value)
SetTextColor(v) ==
    /\ UserEvent
    /\ v # textColor
    /\ textColor' = v
    /\ UNCHANGED <<signature, signatureImage, image, watermarkedImage, opacity,
                   angle, density, fontSize, signatureSize, notification,
                   canvas, notifTimers, uploads, lastPass>>
    /\ Effect
    /\ Rendered(TRUE)

\* the opacity slider: setOpacity(parseFloat(e.target.value))
SetOpacity(v) ==
    /\ UserEvent
    /\ RangeValue(10, 100, 5, v) # opacity
    /\ opacity' = RangeValue(10, 100, 5, v)
    /\ UNCHANGED <<signature, signatureImage, image, watermarkedImage, angle,
                   density, fontSize, signatureSize, textColor, notification,
                   canvas, notifTimers, uploads, lastPass>>
    /\ Effect
    /\ Rendered(TRUE)

\* the angle slider: setAngle(parseInt(e.target.value))
SetAngle(v) ==
    /\ UserEvent
    /\ RangeValue(0, 360, 5, v) # angle
    /\ angle' = RangeValue(0, 360, 5, v)
    /\ UNCHANGED <<signature, signatureImage, image, watermarkedImage, opacity,
                   density, fontSize, signatureSize, textColor, notification,
                   canvas, notifTimers, uploads, lastPass>>
    /\ Effect
    /\ Rendered(TRUE)

\* the density slider: setDensity(parseInt(e.target.value))
SetDensity(v) ==
    /\ UserEvent
    /\ RangeValue(1, 5, 1, v) # density
    /\ density' = RangeValue(1, 5, 1, v)
    /\ UNCHANGED <<signature, signatureImage, image, watermarkedImage, opacity,
                   angle, fontSize, signatureSize, textColor, notification,
                   canvas, notifTimers, uploads, lastPass>>
    /\ Effect
    /\ Rendered(TRUE)

\* the size slider: signatureImage ? setSignatureSize(v) : setFontSize(v)
SetSize(v) ==
    /\ UserEvent
    /\ IF signatureImage # NoImage
       THEN /\ RangeValue(10, 200, 1, v) # signatureSize
            /\ signatureSize' = RangeValue(10, 200, 1, v)
            /\ UNCHANGED fontSize
       ELSE /\ RangeValue(10, 50, 1, v) # fontSize
            /\ fontSize' = RangeValue(10, 50, 1, v)
            /\ UNCHANGED signatureSize
    /\ UNCHANGED <<signature, signatureImage, image, watermarkedImage, opacity,
                   angle, density, textColor, notification, canvas,
                   notifTimers, uploads, lastPass>>
    /\ Effect
    /\ Rendered(TRUE)

\* mutant: the reset leaves the published composite and the density alone
ResetAllKeepsComposite ==
    /\ UserEvent
    /\ signature' = ""
    /\ signatureImage' = NoImage
    /\ image' = NoImage
    /\ opacity' = 50
    /\ angle' = 45
    /\ fontSize' = 20
    /\ signatureSize' = 100
    /\ textColor' = Black
    /\ ShowNotification("resetSuccess", "success")
    /\ UNCHANGED <<canvas, uploads, lastPass, watermarkedImage, density>>
    /\ Effect
    /\ Rendered(TRUE)

\* resetAll
ResetAll ==
    /\ UserEvent
    /\ signature' = ""
    /\ signatureImage' = NoImage
    /\ image' = NoImage
    /\ watermarkedImage' = NoSnapshot
    /\ opacity' = 50
    /\ angle' = 45
    /\ density' = 3
    /\ fontSize' = 20
    /\ signatureSize' = 100
    /\ textColor' = Black
    /\ ShowNotification("resetSuccess", "success")
    /\ UNCHANGED <<canvas, uploads, lastPass>>
    /\ Effect
    /\ Rendered(TRUE)

-----------------------------------------------------------------------------
(* The preview pane, the verification gate and the export pipeline *)

\* what the preview pane renders
Preview ==
    IF isProcessing THEN "processing"
    ELSE IF watermarkedImage # NoSnapshot THEN "composite"
    ELSE IF image = NoImage THEN "uploadAnImageToSeePreview"
    ELSE IF signature # "" \/ signatureImage # NoImage THEN "generatingPreview"
    ELSE "enterYourSignature"

\* the download button is part of the composite's preview
DownloadButton == Preview = "composite" /\ ~isProcessingDownload

\* no export is in flight.  pc is the position of applySteganography:
\* "load" (img.src is set), "encode" (encode is awaited), "hung" (nothing is
\* left that would settle its promise).  url is the composite it was called
\* with.  History: superseded, a compositing request has arrived since the
\* export started; started, the number of exports started so far.
NoExport == [pc |-> "idle", url |-> NoSnapshot, superseded |-> FALSE,
             started |-> 0]

\* document.createElement('canvas')
NewCanvas == BlankCanvas(DefaultCanvasWidth, DefaultCanvasHeight)

GateInit ==
    /\ variant = "recaptcha"
    /\ showCaptcha = FALSE
    /\ isProcessingDownload = FALSE
    /\ modal = NoModal
    /\ export = NoExport
    /\ stegoCanvas = NewCanvas
    /\ downloads = <<>>

\* `Copyright ${new Date().getFullYear()}`
HiddenMessage == "Copyright <year>"
\* values of Date.now(), as digits
Timestamps == {"1762128000000", "1762128000250"}
\* `protected-artwork-${Date.now()}.png`
FileName(now) == <<"protected-artwork-", now, ".png">>

\* ctx.drawImage(img, 0, 0) of a decoded data URL: its pixels, at its size
DrawDataURL(c, url) == [c EXCEPT !.ops = @ \o url.ops]
\* ctx.getImageData(0, 0, canvas.width, canvas.height)
GetImageData(c) == [width |-> c.width, height |-> c.height, ops |-> c.ops]
\* encode(hiddenMessage, imageData) of ts-steganography, when it succeeds:
\* the pixels it was given, with the message in them
Encode(message, data) ==
    [data EXCEPT !.ops = Append(@, [kind |-> "payload", src |-> message,
                                    x |-> 0, y |-> 0, w |-> <<data.width, 1>>,
                                    h |-> <<data.height, 1>>, rot |-> 0,
                                    alpha |-> 100, fill |-> DefaultFill,
                                    font |-> DefaultFont])]
\* ctx.putImageData(encoded, 0, 0)
PutImageData(c, data) == [c EXCEPT !.ops = data.ops]

\* mutant: the encoder draws on the compositor's canvas
StegoTargetShared == "shared"

\* the surface applySteganography works on: a canvas of its own
StegoTarget == "own"

\* mutant: a failed encode resolves with nothing
StegoResultEmpty(outcome, url, c) ==
    IF outcome = "fulfilled"
    THEN ToDataURL(PutImageData(c, Encode(HiddenMessage, GetImageData(c))))
    ELSE NoSnapshot

\* what applySteganography's promise resolves with once encode has settled:
\* try { ...; resolve(canvas.toDataURL('image/png')) }
\* catch (error) { resolve(imageUrl) }
StegoResult(outcome, url, c) ==
    IF outcome = "fulfilled"
    THEN ToDataURL(PutImageData(c, Encode(HiddenMessage, GetImageData(c))))
    ELSE url

\* mutant: the submit handler does not look at the verification
SubmitPassesAlways(v, m) == TRUE

\* the test of handleSubmit: verified, or input.toUpperCase() === captcha
SubmitPasses(v, m) ==
    IF v = "recaptcha" THEN m.verified ELSE ToUpperCase(m.input) = m.captcha

\* the state no step of the gate or the export writes
editorVars == <<signature, signatureImage, image, watermarkedImage, opacity,
                angle, density, fontSize, signatureSize, textColor,
                isProcessing, notification, timers, notifTimers, uploads,
                lastPass, events>>

\* handleDownload, the button under the preview
HandleDownload ==
    /\ DownloadButton
    /\ ~showCaptcha
    /\ export.started < MaxExports
    /\ IF watermarkedImage = NoSnapshot
       THEN UNCHANGED <<showCaptcha, modal>>
       ELSE /\ showCaptcha' = TRUE
            /\ modal' \in FreshModals(variant)
    /\ UNCHANGED <<editorVars, canvas, variant, isProcessingDownload, export,
                   stegoCanvas, downloads>>

\* the widget's onChange: handleVerify(token)
HandleVerify(token) ==
    /\ showCaptcha
    /\ variant = "recaptcha"
    /\ modal' = IF token # "null"
                THEN [modal EXCEPT !.verified = TRUE, !.error = ""]
                ELSE modal
    /\ modal' # modal
    /\ UNCHANGED <<editorVars, canvas, variant, showCaptcha,
                   isProcessingDownload, export, stegoCanvas, downloads>>

\* mutant: an expired token leaves verified as it is
HandleExpiredKeepsVerified ==
    /\ showCaptcha
    /\ variant = "recaptcha"
    /\ modal.verified
    /\ modal' = [modal EXCEPT !.error = "captchaExpired"]
    /\ UNCHANGED <<editorVars, canvas, variant, showCaptcha,
                   isProcessingDownload, export, stegoCanvas, downloads>>

\* the widget's onExpired (a token it issued has run out) and onErrored
HandleExpired ==
    /\ showCaptcha
    /\ variant = "recaptcha"
    /\ modal.verified
    /\ modal' = [modal EXCEPT !.verified = FALSE, !.error = "captchaExpired"]
    /\ UNCHANGED <<editorVars, canvas, variant, showCaptcha,
                   isProcessingDownload, export, stegoCanvas, downloads>>

HandleError ==
    /\ showCaptcha
    /\ variant = "recaptcha"
    /\ modal' = [modal EXCEPT !.verified = FALSE, !.error = "captchaError"]
    /\ modal' # modal
    /\ UNCHANGED <<editorVars, canvas, variant, showCaptcha,
                   isProcessingDownload, export, stegoCanvas, downloads>>

\* the challenge's input: setInput(e.target.value)
SetInput(v) ==
    /\ showCaptcha
    /\ variant = "text"
    /\ v # modal.input
    /\ modal' = [modal EXCEPT !.input = v]
    /\ UNCHANGED <<editorVars, canvas, variant, showCaptcha,
                   isProcessingDownload, export, stegoCanvas, downloads>>

\* the challenge's refresh button: setCaptcha(generateCaptcha()); setError('')
RefreshCaptcha ==
    /\ showCaptcha
    /\ variant = "text"
    /\ \E c \in Captchas : modal' = [modal EXCEPT !.captcha = c, !.error = ""]
    /\ modal' # modal
    /\ UNCHANGED <<editorVars, canvas, variant, showCaptcha,
                   isProcessingDownload, export, stegoCanvas, downloads>>

\* the cancel button of the reCAPTCHA modal: onClose, setShowCaptcha(false)
\* (the text challenge's modal has no such button)
CloseCaptcha ==
    /\ showCaptcha
    /\ variant = "recaptcha"
    /\ showCaptcha' = FALSE
    /\ modal' = NoModal
    /\ UNCHANGED <<editorVars, canvas, variant, isProcessingDownload, export,
                   stegoCanvas, downloads>>

\* handleSubmit.  When the test passes: onVerify(), which is
\* handleVerifiedDownload up to its await (setIsProcessingDownload(true);
\* applySteganography(watermarkedImage) up to img.src = imageUrl), then
\* onClose().  The text challenge's input is required: the form does not
\* submit while it is empty.
HandleSubmit ==
    /\ showCaptcha
    /\ variant = "text" => modal.input # <<>>
    /\ IF SubmitPasses(variant, modal)
       THEN /\ isProcessingDownload' = TRUE
            /\ export' = [pc |-> "load", url |-> watermarkedImage,
                          superseded |-> FALSE, started |-> export.started + 1]
            /\ showCaptcha' = FALSE
            /\ modal' = NoModal
       ELSE /\ \E c \in Captchas :
                modal' = IF variant = "recaptcha"
                         THEN [modal EXCEPT !.error = "captchaRequired"]
                         ELSE [modal EXCEPT !.error = "captchaError",
                                            !.captcha = c, !.input = <<>>]
            /\ modal' # modal
            /\ UNCHANGED <<isProcessingDownload, export, showCaptcha>>
    /\ UNCHANGED <<editorVars, canvas, variant, stegoCanvas, downloads>>

\* img.onload of applySteganography.  The canvas is created and sized, the
\* composite is drawn on it and encode is called.  When getContext('2d')
\* returns null, ctx.drawImage throws outside the try block: the handler
\* ends there and nothing is left that would settle the promise.
StegoOnload(hasContext) ==
    /\ export.pc = "load"
    /\ LET surface == IF StegoTarget = "own" THEN NewCanvas ELSE canvas
           c1 == SetCanvasHeight(SetCanvasWidth(surface, export.url.width),
                                 export.url.height)
           c2 == IF hasContext THEN DrawDataURL(c1, export.url) ELSE c1
       IN  /\ stegoCanvas' = IF StegoTarget = "own" THEN c2 ELSE stegoCanvas
           /\ canvas' = IF StegoTarget = "own" THEN canvas ELSE c2
    /\ export' = [export EXCEPT !.pc = IF hasContext THEN "encode" ELSE "hung"]
    /\ UNCHANGED <<editorVars, variant, showCaptcha, isProcessingDownload,
                   modal, downloads>>

\* the composite does not load into the image: img has no onerror handler,
\* nothing is left that would settle the promise
StegoOnerror ==
    /\ export.pc = "load"
    /\ export' = [export EXCEPT !.pc = "hung"]
    /\ UNCHANGED <<editorVars, canvas, variant, showCaptcha,
                   isProcessingDownload, modal, stegoCanvas, downloads>>

\* encode settles, the promise resolves and handleVerifiedDownload resumes:
\* link.href = protectedImage; link.download = ...; link.click();
\* finally setIsProcessingDownload(false).  The canvas of the export is
\* unreachable from then on.
EncodeSettles(outcome, now) ==
    /\ export.pc = "encode"
    /\ downloads' = Append(downloads,
                           [href |-> StegoResult(outcome, export.url,
                                                 stegoCanvas),
                            download |-> FileName(now)])
    /\ isProcessingDownload' = FALSE
    /\ export' = [NoExport EXCEPT !.started = export.started]
    /\ stegoCanvas' = NewCanvas
    /\ Remount(TRUE)
    /\ UNCHANGED <<editorVars, canvas, variant, showCaptcha>>

-----------------------------------------------------------------------------
(* The specification of the application *)

NoDeps ==
    [image |-> NoImage, signature |-> "", signatureImage |-> NoImage,
     opacity |-> 50, angle |-> 45, density |-> 3, fontSize |-> 20,
     textColor |-> Black, signatureSize |-> 100]
NoPass == [ran |-> FALSE, cl |-> NoDeps, spacing |-> 0, before |-> NoSnapshot]

Init ==
    /\ signature = ""
    /\ signatureImage = NoImage
    /\ image = NoImage
    /\ watermarkedImage = NoSnapshot
    /\ opacity = 50
    /\ angle = 45
    /\ density = 3
    /\ fontSize = 20
    /\ signatureSize = 100
    /\ textColor = Black
    /\ isProcessing = FALSE
    /\ notification = NoNotification
    /\ canvas = BlankCanvas(DefaultCanvasWidth, DefaultCanvasHeight)
    /\ timers = <<>>
    /\ notifTimers = 0
    /\ uploads = <<>>
    /\ lastPass = NoPass
    /\ events = 0
    /\ GateInit

Next ==
    \/ \E v \in Texts : SetSignature(v)
    \/ \E f \in BaseFiles \cup {NoFile} : HandleImageUpload(f)
    \/ \E f \in BaseFiles \cup {NoFile} : HandleDrop(f)
    \/ \E f \in SignatureFiles \cup {NoFile} : HandleSignatureImageUpload(f)
    \/ \E i \in DOMAIN uploads : ReaderOnload(i)
    \/ \E i \in DOMAIN uploads : ImageOnload(i)
    \/ \E i \in DOMAIN uploads : SignatureOnload(i)
    \/ \E i \in DOMAIN uploads : ProcessedOnload(i)
    \/ RemoveSignatureImage
    \/ \E v \in Colors : SetTextColor(v)
    \/ \E v \in OpacityStops : SetOpacity(v)
    \/ \E v \in AngleStops : SetAngle(v)
    \/ \E v \in DensityStops : SetDensity(v)
    \/ \E v \in SizeStops : SetSize(v)
    \/ ResetAll
    \/ CompositingTimer
    \/ NotificationTimer

Spec == Init /\ [][Next]_vars


-----------------------------------------------------------------------------
(* The compositing pass as a function of its inputs: every combination of  *)
(* base image, signature and slider values below is set up before the base *)
(* image arrives, so that one pass is scheduled on the untouched canvas.   *)

PassImages == {ImgA, ImgB, ImgC}
PassTexts == {"", "Jane Doe"}
PassSignatureImages == {NoImage, SigS, SigQ}
PassOpacities == {10, 100}
PassAngles == {0, 45, 90, 180, 360}
PassDensities == 1..5
PassFontSizes == {20}
PassSignatureSizes == {10, 100, 200}
PassColors == {Black, Teal}

InitPass ==
    /\ image \in PassImages
    /\ signature \in PassTexts
    /\ signatureImage \in PassSignatureImages
    /\ EffectRuns(image, signature, signatureImage)
    /\ opacity \in PassOpacities
    /\ angle \in PassAngles
    /\ density \in PassDensities
    /\ fontSize \in PassFontSizes
    /\ signatureSize \in PassSignatureSizes
    /\ textColor \in PassColors
    /\ watermarkedImage = NoSnapshot
    /\ isProcessing = TRUE
    /\ notification = NoNotification
    /\ canvas = BlankCanvas(DefaultCanvasWidth, DefaultCanvasHeight)
    /\ timers = <<Deps>>
    /\ notifTimers = 0
    /\ uploads = <<>>
    /\ lastPass = NoPass
    /\ events = 0
    /\ GateInit

NextPass == CompositingTimer

SpecPass == InitPass /\ [][NextPass]_vars


-----------------------------------------------------------------------------
(* The export of a published composite.  The start is the state the       *)
(* application is in once "Jane Doe" has been typed, a.jpg has been loaded  *)
(* and the pass has run, under either version of the gate.  The angle      *)
(* slider stands for the controls that stay usable while the modal is open *)
(* or an export is in flight.                                              *)

InitExport ==
    /\ signature = "Jane Doe"
    /\ signatureImage = NoImage
    /\ image = ImgA
    /\ opacity = 50
    /\ angle = 45
    /\ density = 3
    /\ fontSize = 20
    /\ signatureSize = 100
    /\ textColor = Black
    /\ isProcessing = FALSE
    /\ notification = NoNotification
    /\ canvas = CompositingPass(NewCanvas, Deps)
    /\ watermarkedImage = ToDataURL(canvas)
    /\ timers = <<>>
    /\ notifTimers = 0
    /\ uploads = <<>>
    /\ lastPass = [ran |-> TRUE, cl |-> Deps,
                   spacing |-> Spacing(image.width, image.height, density),
                   before |-> ToDataURL(NewCanvas)]
    /\ events = 0
    /\ variant \in Variants
    /\ showCaptcha = FALSE
    /\ isProcessingDownload = FALSE
    /\ modal = NoModal
    /\ export = NoExport
    /\ stegoCanvas = NewCanvas
    /\ downloads = <<>>

NextExport ==
    \/ HandleDownload
    \/ \E t \in Tokens : HandleVerify(t)
    \/ HandleExpired
    \/ HandleError
    \/ \E v \in Inputs : SetInput(v)
    \/ RefreshCaptcha
    \/ CloseCaptcha
    \/ HandleSubmit
    \/ \E b \in BOOLEAN : StegoOnload(b)
    \/ StegoOnerror
    \/ \E o \in {"fulfilled", "rejected"}, t \in Timestamps : EncodeSettles(o, t)
    \/ \E v \in AngleStops : SetAngle(v)
    \/ CompositingTimer

SpecExport == InitExport /\ [][NextExport]_vars

-----------------------------------------------------------------------------
(* The sliders and the reset button.  The start is the state after "Jane   *)
(* Doe" has been typed, possibly s.png has been loaded as raster signature,*)
(* a.jpg has been loaded and the pass has run.  The values below are what  *)
(* the user asks a slider to take: below its range, inside it and beyond.  *)

RawOpacities == {0, 73, 150}
RawAngles == {-10, 400}
RawDensities == {0, 9}
RawSizes == {0, 500}

InitParams ==
    /\ signature = "Jane Doe"
    /\ signatureImage \in {NoImage, SigS}
    /\ image = ImgA
    /\ opacity = 50
    /\ angle = 45
    /\ density = 3
    /\ fontSize = 20
    /\ signatureSize = 100
    /\ textColor = Black
    /\ isProcessing = FALSE
    /\ notification = NoNotification
    /\ canvas = CompositingPass(NewCanvas, Deps)
    /\ watermarkedImage = ToDataURL(canvas)
    /\ timers = <<>>
    /\ notifTimers = 0
    /\ uploads = <<>>
    /\ lastPass = [ran |-> TRUE, cl |-> Deps,
                   spacing |-> Spacing(image.width, image.height, density),
                   before |-> ToDataURL(NewCanvas)]
    /\ events = 0
    /\ GateInit

NextParams ==
    \/ \E v \in RawOpacities : SetOpacity(v)
    \/ \E v \in RawAngles : SetAngle(v)
    \/ \E v \in RawDensities : SetDensity(v)
    \/ \E v \in RawSizes : SetSize(v)
    \/ ResetAll
    \/ CompositingTimer
    \/ NotificationTimer

SpecParams == InitParams /\ [][NextParams]_vars

-----------------------------------------------------------------------------
(* Two uploads in flight.  The start is the state after the user has       *)
(* selected two files one after the other, a.jpg and then b.png as base    *)
(* image or s.png and then q.png as signature, and both reads are still in *)
(* flight; the two user events are counted.  From there the callbacks of   *)
(* the two uploads run in any order, and the reset button may be pressed.  *)

InitUploads ==
    /\ signature = ""
    /\ signatureImage = NoImage
    /\ image = NoImage
    /\ watermarkedImage = NoSnapshot
    /\ opacity = 50
    /\ angle = 45
    /\ density = 3
    /\ fontSize = 20
    /\ signatureSize = 100
    /\ textColor = Black
    /\ isProcessing = FALSE
    /\ notification = NoNotification
    /\ canvas = NewCanvas
    /\ timers = <<>>
    /\ notifTimers = 0
    /\ uploads \in {<<[kind |-> "base", file |-> FileA, stage |-> "read"],
                      [kind |-> "base", file |-> FileB, stage |-> "read"]>>,
                    <<[kind |-> "signature", file |-> FileS, stage |-> "read"],
                      [kind |-> "signature", file |-> FileQ, stage |-> "read"]>>}
    /\ lastPass = NoPass
    /\ events = 2
    /\ GateInit

NextUploads ==
    \/ \E i \in DOMAIN uploads : ReaderOnload(i)
    \/ \E i \in DOMAIN uploads : ImageOnload(i)
    \/ \E i \in DOMAIN uploads : SignatureOnload(i)
    \/ \E i \in DOMAIN uploads : ProcessedOnload(i)
    \/ ResetAll
    \/ NotificationTimer

SpecUploads == InitUploads /\ [][NextUploads]_vars

-----------------------------------------------------------------------------
(* Reading the canvas *)

\* the tiles on the canvas: every operation after the base blit
Tiles(c) == SubSeq(c.ops, 2, Len(c.ops))
TextTilesOn(c) == SelectSeq(Tiles(c), LAMBDA o : o.kind = "text")
RasterTilesOn(c) == SelectSeq(Tiles(c), LAMBDA o : o.kind = "image")
Range(seq) == {seq[k] : k \in DOMAIN seq}

\* the anchors in xs (sub-pixel units) form the progression first,
\* first + step, first + 2*step, ... without gaps
EvenlySpaced(xs, first, step) ==
    \A x \in xs : x = first \/ (x > first /\ (x - step) \in xs)

\* the blit of the base image alone, on a surface of the image's size
BaseOnly(img) ==
    ToDataURL(DrawImage(BlankCanvas(img.width, img.height), img, 0, 0,
                        <<img.width, 1>>, <<img.height, 1>>))

\* where a tile lands on the canvas: its anchor and its axes after the
\* transform it was drawn under, in 1/(SubPx*TrigScale) pixel
Placed(o) ==
    [kind |-> o.kind, src |-> o.src,
     x |-> o.x * Cos(o.rot) - o.y * Sin(o.rot),
     y |-> o.x * Sin(o.rot) + o.y * Cos(o.rot),
     cos |-> Cos(o.rot), sin |-> Sin(o.rot), w |-> o.w, h |-> o.h]
Placement(c) == [k \in 1..Len(Tiles(c)) |-> Placed(Tiles(c)[k])]

FreshCanvas == BlankCanvas(DefaultCanvasWidth, DefaultCanvasHeight)

-----------------------------------------------------------------------------
(* Claims *)

\* C1: after every compositing pass the working surface, and the composite
\* published from it, have exactly the width and height of the pass's base
\* image, whatever size and content the canvas had before the pass.
C1_OutputDimensions ==
    lastPass.ran =>
        /\ canvas.width = lastPass.cl.image.width
        /\ canvas.height = lastPass.cl.image.height
        /\ watermarkedImage # NoSnapshot =>
              /\ watermarkedImage.width = lastPass.cl.image.width
              /\ watermarkedImage.height = lastPass.cl.image.height

\* C1 witness: a pass has run on a canvas that an earlier pass had left at
\* another size, and its composite is published.
C1_Witness ==
    /\ lastPass.ran
    /\ lastPass.before.ops # <<>>
    /\ lastPass.before.width # lastPass.cl.image.width
    /\ watermarkedImage.width = lastPass.cl.image.width
    /\ watermarkedImage.height = lastPass.cl.image.height

C3_Spacing ==
    lastPass.ran =>
        /\ lastPass.spacing * lastPass.cl.density
              = Max(canvas.width, canvas.height) * SubPx
        /\ lastPass.spacing > 0
        /\ Len(Tiles(canvas)) > 0
        /\ EvenlySpaced({o.x : o \in Range(Tiles(canvas))},
                        -canvas.width * SubPx, lastPass.spacing)
        /\ EvenlySpaced({o.y : o \in Range(Tiles(canvas))},
                        -canvas.height * SubPx, lastPass.spacing)

\* C3 witness: a pass on the tall 600x800 image at density 5, rotated.
C3_Witness ==
    /\ lastPass.ran
    /\ lastPass.cl.image = ImgB
    /\ lastPass.cl.density = 5
    /\ lastPass.cl.angle = 90
    /\ lastPass.spacing = 160 * SubPx

\* the scenario of C4: 800x600 base, text signature, opacity 0.5, angle 45,
\* density 3
C4_Scenario ==
    /\ lastPass.ran
    /\ lastPass.cl.image.width = 800
    /\ lastPass.cl.image.height = 600
    /\ lastPass.cl.signature # ""
    /\ lastPass.cl.opacity = 50
    /\ lastPass.cl.angle = 45
    /\ lastPass.cl.density = 3

\* the text tiles on the canvas are a grid of pitch `step` on both axes
C4_TextPitch(step) ==
    LET xs == {o.x : o \in Range(TextTilesOn(canvas))}
        ys == {o.y : o \in Range(TextTilesOn(canvas))}
    IN  /\ Cardinality(xs) > 1
        /\ Cardinality(ys) > 1
        /\ EvenlySpaced(xs, -canvas.width * SubPx, step)
        /\ EvenlySpaced(ys, -canvas.height * SubPx, step)

\* C4 as claimed: in the scenario the result is 800x600 and the text tiles
\* are 200 units apart along both axes of the rotated grid.
C4_Spacing200 ==
    C4_Scenario =>
        /\ canvas.width = 800 /\ canvas.height = 600
        /\ lastPass.spacing = 200 * SubPx
        /\ C4_TextPitch(200 * SubPx)

\* C4 as amended: in the scenario the result is 800x600 and the text tiles
\* are max(800,600)/3 = 800/3 (about 266.67) units apart along both axes.
C4_Spacing800Over3 ==
    C4_Scenario =>
        /\ canvas.width = 800 /\ canvas.height = 600
        /\ watermarkedImage # NoSnapshot =>
              watermarkedImage.width = 800 /\ watermarkedImage.height = 600
        /\ 3 * lastPass.spacing = 800 * SubPx
        /\ C4_TextPitch(lastPass.spacing)

\* C4 witness: the scenario has been composited and published.
C4_Witness ==
    /\ C4_Scenario
    /\ lastPass.cl.signature = "Jane Doe"
    /\ watermarkedImage = ToDataURL(canvas)

\* C5: every raster tile is drawn with width = canvasWidth * sizePercent/100
\* and height = width / (signature width / signature height), so that
\* height : width is the signature's own ratio; at sizePercent 100 on an
\* 800x600 base a 200x100 signature is drawn 800 wide and 400 high.
C5_RasterTileSize ==
    lastPass.ran =>
        \A o \in Range(RasterTilesOn(canvas)) :
            LET sig == lastPass.cl.signatureImage
            IN  /\ o.w[1] * 100
                      = canvas.width * lastPass.cl.signatureSize * o.w[2]
                /\ o.h[1] * o.w[2] * sig.width
                      = o.w[1] * o.h[2] * sig.height
                /\ (/\ canvas.width = 800 /\ canvas.height = 600
                    /\ sig.width = 200 /\ sig.height = 100
                    /\ lastPass.cl.signatureSize = 100)
                      => o.w = <<800, 1>> /\ o.h = <<400, 1>>

\* C5 witness: the 200x100 signature tiled at 100% on the 800x600 base.
C5_Witness ==
    /\ lastPass.ran
    /\ lastPass.cl.image = ImgA
    /\ lastPass.cl.signatureImage = SigS
    /\ lastPass.cl.signatureSize = 100
    /\ Len(RasterTilesOn(canvas)) > 0
    /\ \A o \in Range(RasterTilesOn(canvas)) :
          o.w = <<800, 1>> /\ o.h = <<400, 1>>

\* C6: for the base image and signature of a pass run at density d1, every
\* larger density d2 gives a strictly smaller spacing, and a pass with d2
\* draws at least as many tiles.
C6_DensityMonotone ==
    lastPass.ran =>
        \A d2 \in PassDensities :
            d2 > lastPass.cl.density =>
                /\ Spacing(canvas.width, canvas.height, d2) < lastPass.spacing
                /\ Len(Tiles(CompositingPass(
                          canvas, [lastPass.cl EXCEPT !.density = d2])))
                      >= Len(Tiles(canvas))

\* C6 witness: a pass at density 3 on the 500x500 image, where the loop runs
\* one step past the exact count, compared with densities 4 and 5.
C6_Witness ==
    /\ lastPass.ran
    /\ lastPass.cl.image = ImgC
    /\ lastPass.cl.density = 3
    /\ lastPass.cl.signature # ""
    /\ lastPass.cl.signatureImage = NoImage
    /\ Len(Tiles(canvas)) = 100

\* the corners of the canvas rectangle, in pixels
Corners(c) == {<<0, 0>>, <<c.width, 0>>, <<0, c.height>>, <<c.width, c.height>>}

\* the canvas point p, taken back into the rotated frame the tile o was
\* drawn in, is within one spacing of o's anchor on both axes
NearAnchor(p, o, spacing) ==
    LET px == p[1] * Cos(o.rot) + p[2] * Sin(o.rot)
        py == p[2] * Cos(o.rot) - p[1] * Sin(o.rot)
    IN  /\ Abs(px * SubPx - o.x * TrigScale) <= spacing * TrigScale
        /\ Abs(py * SubPx - o.y * TrigScale) <= spacing * TrigScale

\* C7 as claimed: after every pass each corner of the canvas is within one
\* spacing of an anchor of the rotated over-scan grid.
C7_FullCoverage ==
    lastPass.ran =>
        \A p \in Corners(canvas) :
            \E o \in Range(Tiles(canvas)) : NearAnchor(p, o, lastPass.spacing)

\* C8: a pass with angle 0 and a pass with angle 360 on the same base,
\* signature and other parameters place every tile at the same canvas
\* position with the same orientation and size.
C8_Angle0And360 ==
    (lastPass.ran /\ lastPass.cl.angle \in {0, 360}) =>
        Placement(canvas)
            = Placement(CompositingPass(FreshCanvas,
                  [lastPass.cl EXCEPT !.angle = 360 - lastPass.cl.angle]))

\* C8 witness: a pass with angle 360 drew its tiles under a full turn.
C8_Witness ==
    /\ lastPass.ran
    /\ lastPass.cl.angle = 360
    /\ Len(Tiles(canvas)) > 0
    /\ \A o \in Range(Tiles(canvas)) : o.rot = 2 * PiUnits

\* C9: what a pass leaves on the canvas, and publishes, is what the same
\* pass produces on an untouched canvas from its own inputs: nothing drawn
\* or set by an earlier pass survives, and the context is back in its
\* default state.
C9_PureFunction ==
    lastPass.ran =>
        /\ canvas = CompositingPass(FreshCanvas, lastPass.cl)
        /\ watermarkedImage \in
              {NoSnapshot, ToDataURL(CompositingPass(FreshCanvas, lastPass.cl))}

\* C9 witness: a pass has run on a canvas that carried the different
\* composite of an earlier pass, and its result is published.
C9_Witness ==
    /\ lastPass.ran
    /\ lastPass.before.ops # <<>>
    /\ lastPass.before # ToDataURL(canvas)
    /\ watermarkedImage = ToDataURL(canvas)

\* C10 as claimed: a non-empty text signature and a raster signature never
\* coexist, and no pass draws both text tiles and raster tiles.
C10_OneSignatureKind ==
    /\ ~(signature # "" /\ signatureImage # NoImage)
    /\ ~(Len(TextTilesOn(canvas)) > 0 /\ Len(RasterTilesOn(canvas)) > 0)

\* the verification the modal holds: verified, or an input that matches the
\* challenge
Passed ==
    IF variant = "recaptcha"
    THEN modal.verified
    ELSE ToUpperCase(modal.input) = modal.captcha

\* C11: the export pipeline starts only once the gate has been passed.  The
\* gate opens only on a composite that is not null; a step that starts the
\* pipeline is a step that closes an open modal whose verification holds,
\* and it exports the published composite; a step that closes the modal
\* without a verification leaves the export as it is; a file is downloaded
\* only from a pipeline that was started that way.
C11_GateBeforeExport ==
    [][/\ (~showCaptcha /\ showCaptcha') => watermarkedImage # NoSnapshot
       /\ (export'.started > export.started
           \/ (isProcessingDownload' /\ ~isProcessingDownload))
          => /\ showCaptcha /\ ~showCaptcha'
             /\ Passed
             /\ export.pc = "idle" /\ export'.pc = "load"
             /\ export'.url = watermarkedImage
             /\ export'.url # NoSnapshot
       /\ (showCaptcha /\ ~showCaptcha' /\ ~Passed)
          => UNCHANGED <<export, isProcessingDownload, downloads>>
       /\ Len(downloads') > Len(downloads)
          => export.pc = "encode" /\ export.started > 0]_vars

\* an export is in flight behind a closed modal
C11_Witness ==
    /\ export.pc = "load"
    /\ isProcessingDownload
    /\ ~showCaptcha
    /\ export.url = watermarkedImage

\* the file that link.click() handed over last
LastDownload(ds) == ds[Len(ds)]
\* the data URL carries a hidden message
HasPayload(url) == \E k \in DOMAIN url.ops : url.ops[k].kind = "payload"

\* C12: when encode fails, the export still yields an image, and it is
\* exactly the plain composite applySteganography was called with: the step
\* in which encode rejects downloads one file whose content is that composite.
C12_FallbackToComposite ==
    [][\A t \in Timestamps :
          EncodeSettles("rejected", t)
          => /\ Len(downloads') = Len(downloads) + 1
             /\ LastDownload(downloads').href = export.url
             /\ export.url # NoSnapshot
             /\ ~HasPayload(LastDownload(downloads').href)]_vars

\* a file has been downloaded that is the published composite itself
C12_Witness ==
    /\ downloads # <<>>
    /\ LastDownload(downloads).href = watermarkedImage
    /\ ~HasPayload(LastDownload(downloads).href)
    /\ ~isProcessingDownload

\* C13: every verified export completes, whatever fails inside the
\* steganographic step.  As a property of states: while isProcessingDownload
\* is set, applySteganography still has a step to take that leads to the
\* download (the image is loading or encode is awaited), and no error is
\* notified.  A state with the flag set and no such step left is a state
\* from which the export never completes.
C13_ExportCompletes ==
    /\ isProcessingDownload => export.pc \in {"load", "encode"}
    /\ notification.message # "downloadFailed"

\* C14: when a new compositing request has arrived after an export started
\* and before it finished, the result of that export is discarded: no step
\* downloads a file from it, and the preview never shows an encoded image.
C14_SupersededDiscarded ==
    [][/\ export.superseded => downloads' = downloads
       /\ ~HasPayload(watermarkedImage')]_vars

\* C15: whenever a base image is loaded and no signature is set (text empty
\* and raster signature null, also after a signature has been cleared), the
\* preview pane shows the prompt for a signature: not a watermarked image
\* with its download button.
C15_PromptWithoutSignature ==
    (image # NoImage /\ signature = "" /\ signatureImage = NoImage)
    => /\ Preview = "enterYourSignature"
       /\ ~DownloadButton

\* the step rejects a file: nothing is read, the images and the pending
\* passes stay as they are, and an error notification is shown
Rejects(message) ==
    /\ UNCHANGED <<image, signatureImage, watermarkedImage, uploads, timers,
                   isProcessing>>
    /\ notification' = [message |-> message, type |-> "error"]
    /\ notifTimers' = notifTimers + 1

\* C16: a base image file whose MIME type is not an image type is rejected
\* on both upload paths: a step of the file picker or of the drop zone with
\* such a file leaves image unchanged, schedules no pass and shows an error
\* notification.
C16_InvalidBaseRejected ==
    [][\A f \in BaseFiles :
          (f.type = "text/plain" /\ (HandleImageUpload(f) \/ HandleDrop(f)))
          => Rejects("invalidImage")]_vars

\* C17: a signature file whose MIME type is not PNG is rejected on both
\* upload paths (the picker and the drop zone call the same handler): the
\* step leaves signatureImage unchanged, schedules no pass and shows an
\* error notification.
C17_InvalidSignatureRejected ==
    [][\A f \in SignatureFiles :
          (f.type # "image/png" /\ HandleSignatureImageUpload(f))
          => Rejects("invalidSignatureImage")]_vars

\* a JPEG has been offered as signature and turned down
C17_Witness ==
    /\ notification = [message |-> "invalidSignatureImage", type |-> "error"]
    /\ notifTimers > 0
    /\ signatureImage = NoImage
    /\ uploads = <<>>

\* the slider values lie in the ranges of the controls
ValidParams(p) ==
    /\ p.opacity \in 10..100
    /\ p.angle \in 0..360
    /\ p.density \in 1..5
    /\ p.fontSize \in 10..50
    /\ p.signatureSize \in 10..200

\* C18: after any sequence of operations of the user interface (slider
\* changes, reset) opacity is within [0.1, 1.0], the angle within [0, 360],
\* the density an integer of 1..5, the font size within [10, 50] and the
\* signature size within [10, 200]; so every pass that is pending and every
\* pass that has run has parameters in these ranges.
C18_ParamsInRange ==
    /\ ValidParams(Deps)
    /\ \A k \in DOMAIN timers : ValidParams(timers[k])
    /\ lastPass.ran => ValidParams(lastPass.cl)

\* a pass has run with sliders pushed to the ends of their ranges
C18_Witness ==
    /\ lastPass.ran
    /\ lastPass.cl.opacity = 10
    /\ lastPass.cl.angle = 360
    /\ lastPass.cl.density \in {1, 5}
    /\ events = MaxEvents

\* a step of the export pipeline: applySteganography moves on, its canvas
\* is written or a file is downloaded
ExportStep ==
    \/ export'.pc # export.pc
    \/ stegoCanvas' # stegoCanvas
    \/ downloads' # downloads

\* C19: the export pipeline leaves the base image, both signatures, every
\* parameter and watermarkedImage unchanged.  The encoder works on a canvas
\* of its own, never on the compositor's canvas, and what it produces never
\* becomes the compositor's input or the published composite.
C19_ExportFrame ==
    [][ExportStep
       => /\ UNCHANGED <<image, signature, signatureImage, opacity, angle,
                         density, fontSize, signatureSize, textColor,
                         watermarkedImage, canvas, timers, isProcessing>>
          /\ ~HasPayload(watermarkedImage')
          /\ ~HasPayload(ToDataURL(canvas'))]_vars

\* an encoded file has been downloaded while the composite and the
\* compositor's canvas are as the last pass left them
C19_Witness ==
    /\ downloads # <<>>
    /\ HasPayload(LastDownload(downloads).href)
    /\ watermarkedImage = ToDataURL(canvas)
    /\ ~HasPayload(watermarkedImage)

\* C20: each passed verification produces exactly one downloadable file,
\* named protected-artwork-<timestamp>.png, and nothing else produces one:
\* there are never more files than passed verifications, every file carries
\* that name, and once no export has a step left to take there are as many
\* files as verifications that were passed.
C20_OneFilePerVerification ==
    /\ Len(downloads) <= export.started
    /\ \A k \in DOMAIN downloads :
          \E now \in Timestamps :
             downloads[k].download = <<"protected-artwork-", now, ".png">>
    /\ export.pc \notin {"load", "encode"} => Len(downloads) = export.started

\* C21: the operations of every pass occur in this order: the base image is
\* blitted at the origin under the identity transform and full opacity,
\* then the state is saved, the rotation and the global alpha are set, the
\* tiles are drawn, the state is restored and only then the result is
\* published.  On the canvas a pass leaves, the first operation is that
\* blit, every later one is a tile drawn under the pass's rotation and
\* opacity, the context is back in its default state with nothing left on
\* its stack, and a published composite holds all of it.
C21_PassOrder ==
    lastPass.ran =>
        /\ canvas.ops # <<>>
        /\ LET base == canvas.ops[1]
           IN  /\ base.kind = "image"
               /\ base.src = lastPass.cl.image.name
               /\ base.x = 0 /\ base.y = 0
               /\ base.rot = 0
               /\ base.alpha = 100
        /\ \A k \in 2..Len(canvas.ops) :
              /\ canvas.ops[k].rot = (lastPass.cl.angle * PiUnits) \div 180
              /\ canvas.ops[k].alpha = lastPass.cl.opacity
              /\ canvas.ops[k].src \in {lastPass.cl.signature,
                                        lastPass.cl.signatureImage.name}
        /\ canvas.rot = 0
        /\ canvas.globalAlpha = 100
        /\ canvas.stack = <<>>
        /\ watermarkedImage # NoSnapshot => watermarkedImage = ToDataURL(canvas)

\* a later pass has run on a canvas an earlier pass had drawn on, rotated
\* and translucent, and its composite is published
C21_Witness ==
    /\ lastPass.ran
    /\ lastPass.before.ops # <<>>
    /\ lastPass.cl.angle # 0
    /\ lastPass.cl.opacity < 100
    /\ Len(canvas.ops) > 1
    /\ watermarkedImage = ToDataURL(canvas)

\* ceil(a / b) for positive b
CeilDiv(a, b) == (a + b - 1) \div b

\* the tiles of one kind lie exactly on the grid of anchors
\* (-width + i*spacing, -height + j*spacing), ceil(3*width/spacing) by
\* ceil(3*height/spacing) of them, and they are not more than 9 * density^2
OnGrid(tiles, w, h, d) ==
    LET sp == Spacing(w, h, d)
        nx == CeilDiv(3 * w * SubPx, sp)
        ny == CeilDiv(3 * h * SubPx, sp)
    IN  /\ Len(tiles) = nx * ny
        /\ Len(tiles) <= 9 * d * d
        /\ {<<tiles[k].x, tiles[k].y>> : k \in DOMAIN tiles}
              = {<<i * sp - w * SubPx, j * sp - h * SubPx>> :
                    i \in 0..(nx - 1), j \in 0..(ny - 1)}

\* C22: for every base size and every density of 1..5 the tile loops draw
\* exactly at the anchors (-width + i*spacing, -height + j*spacing) below
\* 2*width and 2*height: per signature kind ceil(3*width/spacing) *
\* ceil(3*height/spacing) tiles, never more than 9 * density^2.
C22_TileCount ==
    lastPass.ran =>
        LET cl == lastPass.cl
        IN  /\ cl.signature # ""
               => OnGrid(TextTilesOn(canvas), cl.image.width,
                         cl.image.height, cl.density)
            /\ cl.signatureImage # NoImage
               => OnGrid(RasterTilesOn(canvas), cl.image.width,
                         cl.image.height, cl.density)

\* the state resetAll writes, at its initial values, with the reset notified
IsReset ==
    /\ signature = ""
    /\ signatureImage = NoImage
    /\ image = NoImage
    /\ watermarkedImage = NoSnapshot
    /\ opacity = 50
    /\ angle = 45
    /\ density = 3
    /\ fontSize = 20
    /\ signatureSize = 100
    /\ textColor = <<"#", "0", "0", "0", "0", "0", "0">>
    /\ notification = [message |-> "resetSuccess", type |-> "success"]

\* C23: resetAll returns the text signature, the raster signature, the base
\* image, watermarkedImage, opacity, angle, density, font size, signature
\* size and colour to their initial values and shows the reset notification;
\* applied to a state it has just produced it gives that state again.
C23_ResetAll ==
    [][ResetAll
       => /\ IsReset'
          /\ notifTimers' = notifTimers + 1
          /\ IsReset => UNCHANGED <<signature, signatureImage, image,
                                    watermarkedImage, opacity, angle, density,
                                    fontSize, signatureSize, textColor,
                                    notification>>]_vars

\* the reset has discarded a base image whose composite had been made
C23_Witness ==
    /\ IsReset
    /\ lastPass.ran
    /\ lastPass.cl.image # NoImage
    /\ notifTimers > 0

\* the input does not match the challenge, letter case aside
Mismatch == ToUpperCase(modal.input) # ToUpperCase(modal.captcha)

\* C24: the gate rejects every submit made while the verification does not
\* hold.  With the reCAPTCHA: a step that reports an expired token or an
\* error leaves verified false, verified becomes true only in a step that
\* brings a token, and a submit while it is false sets an error and starts
\* no export.  With the text challenge: a submit whose input does not match
\* the challenge starts no export, draws a new challenge and clears the
\* input.
C24_GateRejects ==
    [][/\ (variant = "recaptcha" /\ showCaptcha'
           /\ modal'.error \in {"captchaExpired", "captchaError"})
          => ~modal'.verified
       /\ (~modal.verified /\ modal'.verified)
          => \E t \in Tokens : t # "null" /\ HandleVerify(t)
       /\ (variant = "recaptcha" /\ HandleSubmit /\ ~modal.verified)
          => /\ modal'.error = "captchaRequired"
             /\ ~modal'.verified
             /\ UNCHANGED <<showCaptcha, export, isProcessingDownload,
                            downloads, stegoCanvas>>
       /\ (variant = "text" /\ HandleSubmit /\ Mismatch)
          => /\ modal'.captcha \in Captchas
             /\ modal'.input = <<>>
             /\ modal'.error = "captchaError"
             /\ UNCHANGED <<showCaptcha, export, isProcessingDownload,
                            downloads, stegoCanvas>>]_vars

\* a submit has been turned down: the modal is still open and shows the
\* error, and no export has started
C24_Witness ==
    /\ showCaptcha
    /\ export = NoExport
    /\ ~isProcessingDownload
    /\ \/ variant = "recaptcha" /\ modal.error = "captchaRequired"
       \/ variant = "text" /\ modal.error = "captchaError"
                           /\ modal.input = <<>>

\* alphas a pixel of a raster signature may have, in hundredths
PixelAlphas == {0, 50, 100}

\* C25: text tiles are blended with opacity * opacity, since the pass sets
\* the global alpha to opacity and puts opacity into the fill colour as
\* well; raster tiles are blended with opacity times the signature's own
\* alpha.  At opacity 1.0 a text tile and an opaque signature pixel are
\* fully opaque; at opacity 0.1 text tiles are blended at 0.01.
C25_EffectiveAlpha ==
    lastPass.ran =>
        LET op == lastPass.cl.opacity
        IN  /\ \A k \in DOMAIN TextTilesOn(canvas) :
                  LET a == BlendAlpha(TextTilesOn(canvas)[k], 100)
                  IN  /\ a = op * op
                      /\ op = 100 => a = 10000
                      /\ op = 10 => a = 100
            /\ \A k \in DOMAIN RasterTilesOn(canvas) :
                  \A px \in PixelAlphas :
                     LET a == BlendAlpha(RasterTilesOn(canvas)[k], px)
                     IN  /\ a = op * px
                         /\ (op = 100 /\ px = 100) => a = 10000

\* a pass has drawn text tiles and raster tiles at opacity 0.1
C25_Witness ==
    /\ lastPass.ran
    /\ lastPass.cl.opacity = 10
    /\ TextTilesOn(canvas) # <<>>
    /\ RasterTilesOn(canvas) # <<>>
    /\ BlendAlpha(TextTilesOn(canvas)[1], 100) = 100

\* C26: in every reachable state, also while compositing timers or uploads
\* are pending, a null base image implies a null watermarkedImage: after
\* resetAll the preview shows no composite and no download button.
C26_NoCompositeWithoutBase ==
    image = NoImage
    => /\ watermarkedImage = NoSnapshot
       /\ Preview # "composite"

\* C27: isProcessing is true exactly while at least one compositing pass is
\* scheduled and has not run yet, so the preview with its download button
\* never shows a composite that a pending pass is about to replace.
C27_ProcessingWhilePending ==
    /\ isProcessing <=> timers # <<>>
    /\ DownloadButton => timers = <<>>

\* C28: whenever a base image and at least one signature are set and every
\* scheduled compositing callback has run, watermarkedImage is the composite
\* of the current base image, signatures and parameters: a pass scheduled
\* for values that have been superseded does not overwrite the result of
\* the latest request.
C28_LastRequestWins ==
    (EffectRuns(image, signature, signatureImage) /\ timers = <<>>)
    => watermarkedImage = ToDataURL(CompositingPass(FreshCanvas, Deps))

\* two requests had been pending together; both have run and the composite
\* shown is the one of the current values
C28_Witness ==
    /\ EffectRuns(image, signature, signatureImage)
    /\ timers = <<>>
    /\ lastPass.ran
    /\ lastPass.before.ops # <<>>
    /\ lastPass.before # ToDataURL(canvas)
    /\ ~isProcessing
    /\ watermarkedImage = ToDataURL(canvas)

\* C29: when two base images (or two signature images) are selected one
\* after the other, then once the callbacks of both uploads have fired the
\* stored image is the one selected last (b.png, q.png), whatever order
\* they fired in; and once resetAll has run (the third user event) no
\* upload that was in flight sets an image.
C29_LastSelectedWins ==
    /\ (events = 2 /\ uploads = <<>>)
       => /\ image \in {NoImage, FileB.image}
          /\ signatureImage \in {NoImage, FileQ.image}
    /\ events > 2
       => /\ image = NoImage
          /\ signatureImage = NoImage

\* C30: a notification is cleared only by the timer that was started for
\* it.  The timers run in the order they were started, so the timer of the
\* notification on screen, the latest one, is the last of those pending: a
\* step that clears a notification is the step of the only pending timer.
C30_OwnTimerClears ==
    [][(notification # NoNotification /\ notification' = NoNotification)
       => notifTimers = 1]_vars

====
